---- MODULE Spec2Model ----
(***************************************************************************)
(* A model of chess_evaluator/__main__.py: the request handler main, the   *)
(* evaluation procedure evaluate_llm_move_logic and the classifier         *)
(* describe_quality.  The chess library and the engine are the model's     *)
(* environment: a position is the list of whitespace-separated fields of   *)
(* its FEN text (so the empty text is the empty list), a move is its UCI   *)
(* text, and the engine answers each query with any value of               *)
(* AnalysisValues or raises.  A Python dict is a function whose domain is  *)
(* the set of its keys; None is the empty tuple and an int n that may be   *)
(* None is the tuple <<n>>.                                                *)
(***************************************************************************)
EXTENDS Integers, Sequences, FiniteSets, TLC

VARIABLES
    pc,                   \* where control is
    event,                \* main's argument
    fen, llm_move_san, top_n, multipv,   \* evaluate_llm_move_logic's arguments
    board,                \* the working position
    llm_color, llm_move_uci,
    engine,               \* "none", "running" or "closed"
    launches,             \* engine processes launched so far
    calls,                \* the engine.analyse calls made so far
    analysis_result,      \* what the first query returned
    stockfish_top_moves, stockfish_best_score,
    post_move_fen, llm_score,
    caught,               \* the exception the try statement caught
    result,               \* what evaluate_llm_move_logic returned
    fault,                \* the exception that left evaluate_llm_move_logic uncaught
    response,             \* what main returned
    loss, quality         \* a direct call of describe_quality and its result

vars == <<pc, event, fen, llm_move_san, top_n, multipv, board, llm_color,
          llm_move_uci, engine, launches, calls, analysis_result,
          stockfish_top_moves, stockfish_best_score, post_move_fen, llm_score,
          caught, result, fault, response, loss, quality>>

\* ------------------------------------------------------------------ bounds

\* The engine returns at most this many lines.
MaxLines == 2
\* The request's top_n is one of 0..MaxTopN, or absent.
MaxTopN == 2
\* describe_quality is called directly on -MaxLoss..MaxLoss.
MaxLoss == 320

\* ------------------------------------------------------------ Python values

None == <<>>
Some(n) == <<n>>
Unset == [unset |-> TRUE]

\* dict.get(key, default)
Get(d, k, default) == IF k \in DOMAIN d THEN d[k] ELSE default

\* ----------------------------------------------------------------- classifier

describe_quality_wrong_boundary(l) ==
    IF l <= 20 THEN "Excellent"
    ELSE IF l < 50 THEN "Good"
    ELSE IF l < 100 THEN "Inaccuracy"
    ELSE IF l < 300 THEN "Mistake"
    ELSE "Blunder"

describe_quality(l) ==
    IF l < 20 THEN "Excellent"
    ELSE IF l < 50 THEN "Good"
    ELSE IF l < 100 THEN "Inaccuracy"
    ELSE IF l < 300 THEN "Mistake"
    ELSE "Blunder"

\* ------------------------------------------------------------ chess library

StartFen == <<"rnbqkbnr/pppppppp/8/8/8/8/PPPPPPPP/RNBQKBNR", "w", "KQkq", "-", "0", "1">>
BlackFen == <<"rnbqkbnr/pppppppp/8/8/4P3/8/PPPP1PPP/RNBQKBNR", "b", "KQkq", "-", "0", "1">>

\* The moves of the two positions that the requests name: SAN text, UCI text
\* and the FEN of the position the move leads to.
MoveTable ==
    { [fen |-> StartFen, san |-> "e4", uci |-> "e2e4",
       after |-> <<"rnbqkbnr/pppppppp/8/8/4P3/8/PPPP1PPP/RNBQKBNR", "b", "KQkq", "-", "0", "1">>],
      [fen |-> StartFen, san |-> "Nf3", uci |-> "g1f3",
       after |-> <<"rnbqkbnr/pppppppp/8/8/8/5N2/PPPPPPPP/RNBQKB1R", "b", "KQkq", "-", "1", "1">>],
      [fen |-> BlackFen, san |-> "e5", uci |-> "e7e5",
       after |-> <<"rnbqkbnr/pppp1ppp/8/4p3/4P3/8/PPPP1PPP/RNBQKBNR", "w", "KQkq", "-", "0", "2">>] }

\* chess.Board(fen)
Board(f) == [fen |-> f, move_stack |-> <<>>]

\* board.parse_san(san): the move, or ValueError
parse_san(b, san) ==
    IF \E m \in MoveTable : m.fen = b.fen /\ m.san = san
    THEN [ok |-> TRUE, uci |-> (CHOOSE m \in MoveTable : m.fen = b.fen /\ m.san = san).uci]
    ELSE [ok |-> FALSE]

\* board.push(move), board.pop()
Push(b, uci) == [b EXCEPT !.move_stack = Append(@, uci)]
Pop(b) == [b EXCEPT !.move_stack = SubSeq(@, 1, Len(@) - 1)]

\* board.fen()
BoardFen(b) ==
    IF b.move_stack = <<>> THEN b.fen
    ELSE (CHOOSE m \in MoveTable : m.fen = b.fen /\ m.uci = b.move_stack[1]).after

\* ------------------------------------------------------------------- engine

Cp(n) == [cp |-> n]
Mate(n) == [mate |-> n]

\* PovScore.relative.score(): the centipawns, None for a mate score
RelativeScore(s) == IF "cp" \in DOMAIN s THEN Some(s.cp) ELSE None

Scores == {Cp(-50), Cp(50), Mate(1)}
PVs == {<<"e2e4", "e7e5">>, <<"g1f3">>}
\* An info without a principal variation, as for a position with no legal
\* move; one whose principal variation is empty; one without a score.
NoPvInfo == [score |-> Mate(0)]
EmptyPvInfo == [pv |-> <<>>, score |-> Cp(50)]
NoScoreInfo == [pv |-> <<"g1f3">>]
Infos ==
    {[pv |-> p, score |-> s] : p \in PVs, s \in Scores}
    \cup {NoPvInfo, EmptyPvInfo, NoScoreInfo}

ListResult(l) == [kind |-> "list", items |-> l]
DictResult(i) == [kind |-> "dict", info |-> i]
NoneResult == [kind |-> "none"]

AnalysisValues ==
    {ListResult(l) : l \in UNION {[1..n -> Infos] : n \in 0..MaxLines}}
    \cup {DictResult(i) : i \in Infos}
    \cup {NoneResult}

EngineTerminatedError ==
    [type |-> "EngineTerminatedError", msg |-> "engine process died unexpectedly (exit code: -9)"]
LaunchErrors ==
    {EngineTerminatedError,
     [type |-> "FileNotFoundError", msg |-> "[Errno 2] No such file or directory: 'stockfish'"]}
QueryErrors ==
    {EngineTerminatedError,
     [type |-> "EngineError", msg |-> "expected engine response"]}

KeyError(k) == [type |-> "KeyError", msg |-> "'" \o k \o "'"]
IndexError == [type |-> "IndexError", msg |-> "list index out of range"]
NoneSubscript == [type |-> "TypeError", msg |-> "'NoneType' object is not subscriptable"]

\* --------------------------------------------------- evaluate_llm_move_logic

\* llm_color: "white" if fen.split()[1] == "w" else "black"
ColorOf(f) == IF f[2] = "w" THEN "white" ELSE "black"

IllegalMoveReportZeroLoss(san, color) ==
    [llm_move |-> san, llm_eval |-> 0, centipawn_loss |-> 0,
     move_quality |-> "Illegal", llm_color |-> color,
     error |-> "Illegal move format or invalid move."]

\* The report of a move text that parse_san rejects.
IllegalMoveReport(san, color) ==
    [llm_move |-> san, llm_eval |-> 10000, centipawn_loss |-> 10000,
     move_quality |-> "Illegal", llm_color |-> color,
     error |-> "Illegal move format or invalid move."]

\* The value the else branch returns.
UnexpectedFormatReport(color) ==
    [error |-> "Stockfish analysis returned unexpected result format.",
     llm_color |-> color]

ExceptReportNoColor(exc, color) ==
    IF exc.type = "EngineTerminatedError"
    THEN [error |-> "Stockfish engine terminated unexpectedly. Check path and permissions."]
    ELSE [error |-> "An error occurred during Stockfish analysis: " \o exc.msg]

\* The two except clauses.
ExceptReport(exc, color) ==
    IF exc.type = "EngineTerminatedError"
    THEN [error |-> "Stockfish engine terminated unexpectedly. Check path and permissions.",
          llm_color |-> color]
    ELSE [error |-> "An error occurred during Stockfish analysis: " \o exc.msg,
          llm_color |-> color]

ExitEngineOnSuccessOnly(how) == IF how = "normal" THEN "closed" ELSE "running"

\* The engine's state once the with statement is left: normally, by a return
\* inside it, or by an exception.
ExitEngine(how) == "closed"

\* The multipv argument of the first engine.analyse call.
FirstQueryLines(mpv, n) == Some(n)

Extracted(moves, best) == [kind |-> "ok", moves |-> moves, best |-> best]
\* An exception raised before stockfish_top_moves is assigned, and one raised
\* by the statement after its assignment.
Raised(exc) == [kind |-> "raise", exc |-> exc, moves |-> <<>>]
RaisedAfterMoves(exc, moves) == [kind |-> "raise", exc |-> exc, moves |-> moves]
Returned(report) == [kind |-> "return", report |-> report]

\* info['pv'][0].uci()
FirstMove(info) ==
    IF "pv" \notin DOMAIN info THEN Raised(KeyError("pv"))
    ELSE IF Len(info.pv) = 0 THEN Raised(IndexError)
    ELSE [kind |-> "ok", uci |-> info.pv[1]]

\* [info['pv'][0].uci()] and info['score'].relative.score() of one info
FromInfo(info) ==
    IF FirstMove(info).kind = "raise" THEN FirstMove(info)
    ELSE IF "score" \notin DOMAIN info
    THEN RaisedAfterMoves(KeyError("score"), <<FirstMove(info).uci>>)
    ELSE Extracted(<<FirstMove(info).uci>>, RelativeScore(info.score))

\* The if/elif chain on the first query's result.  The list comprehension of
\* the first branch raises at the first line it cannot read.
Extract(r, mpv, n, color) ==
    IF mpv /\ n > 1 /\ r.kind = "list"
    THEN LET unreadable == {i \in 1..Len(r.items) : FirstMove(r.items[i]).kind = "raise"}
         IN  IF unreadable # {}
             THEN FirstMove(r.items[CHOOSE i \in unreadable : \A j \in unreadable : i <= j])
             ELSE IF Len(r.items) = 0
             THEN Raised(IndexError)
             ELSE IF "score" \notin DOMAIN r.items[1]
             THEN RaisedAfterMoves(KeyError("score"),
                                   [i \in 1..Len(r.items) |-> FirstMove(r.items[i]).uci])
             ELSE Extracted([i \in 1..Len(r.items) |-> FirstMove(r.items[i]).uci],
                            RelativeScore(r.items[1].score))
    ELSE IF r.kind = "list" /\ Len(r.items) > 0
    THEN FromInfo(r.items[1])
    ELSE IF r.kind # "list"
    THEN IF r.kind = "none" THEN Raised(NoneSubscript) ELSE FromInfo(r.info)
    ELSE Returned(UnexpectedFormatReport(color))

\* Compute centipawn loss from LLM's POV
CentipawnLoss(color, best, score) ==
    IF color = "white" THEN best - score ELSE score - best

SuccessReport(moves, best, uci, pfen, score, cpl, color) ==
    [stockfish_moves |-> moves, stockfish_eval |-> best, llm_move |-> uci,
     post_move_fen |-> pfen, llm_eval |-> score, centipawn_loss |-> cpl,
     move_quality |-> describe_quality(cpl), llm_color |-> color]

\* ---------------------------------------------------------------------- main

\* event.get(key) is None or empty
Falsy(e, k, empty) == IF k \in DOMAIN e THEN e[k] = empty ELSE TRUE

\* not fen or not llm_move_san
Missing(e) == Falsy(e, "fen", <<>>) \/ Falsy(e, "llm_move_san", "")

BadRequest ==
    [statusCode |-> 400,
     body |-> [error |-> "Missing required parameters: 'fen' and 'llm_move_san' must be provided."]]

StatusOfAlwaysOk(report) == 200

StatusOf(report) == IF "error" \in DOMAIN report THEN 500 ELSE 200

\* ------------------------------------------------------------------ requests

Part(k, V) == {<<>>} \cup {(k :> v) : v \in V}

FenTexts == {<<>>, StartFen, BlackFen}
SanTexts == {"", "e4", "Nf3", "e5", "Z9"}

Events ==
    { F @@ S @@ T @@ M :
        F \in Part("fen", FenTexts), S \in Part("llm_move_san", SanTexts),
        T \in Part("top_n", 0..MaxTopN), M \in Part("multipv", BOOLEAN) }

\* ------------------------------------------------------------------- actions

Init ==
    /\ pc = "idle"
    /\ event = Unset
    /\ fen = <<>> /\ llm_move_san = "" /\ top_n = 0 /\ multipv = FALSE
    /\ board = Unset
    /\ llm_color = "" /\ llm_move_uci = ""
    /\ engine = "none" /\ launches = 0 /\ calls = <<>>
    /\ analysis_result = Unset
    /\ stockfish_top_moves = <<>> /\ stockfish_best_score = None
    /\ post_move_fen = <<>> /\ llm_score = None
    /\ caught = Unset /\ result = Unset /\ fault = Unset /\ response = Unset
    /\ loss = 0 /\ quality = ""

evalLocals == <<board, llm_color, llm_move_uci, analysis_result,
                stockfish_top_moves, stockfish_best_score, post_move_fen, llm_score>>
evalArgs == <<fen, llm_move_san, top_n, multipv>>
engineVars == <<engine, launches, calls>>
dqVars == <<loss, quality>>

\* A direct call of describe_quality.
DescribeQuality ==
    /\ pc = "idle"
    /\ \E l \in (-MaxLoss)..MaxLoss :
        /\ loss' = l
        /\ quality' = describe_quality(l)
    /\ pc' = "classified"
    /\ UNCHANGED <<event, evalArgs, evalLocals, engineVars, result, caught, fault, response>>

\* main, when a required parameter is missing: the 400 response.
MainReject ==
    /\ pc = "idle"
    /\ \E e \in {ev \in Events : Missing(ev)} : event' = e
    /\ response' = BadRequest
    /\ pc' = "done"
    /\ UNCHANGED <<evalArgs, evalLocals, engineVars, result, caught, fault, dqVars>>

\* main up to its call of evaluate_llm_move_logic.
MainCall ==
    /\ pc = "idle"
    /\ \E e \in {ev \in Events : ~Missing(ev)} :
        /\ event' = e
        /\ fen' = e["fen"]
        /\ llm_move_san' = e["llm_move_san"]
        /\ top_n' = Get(e, "top_n", 3)
        /\ multipv' = Get(e, "multipv", FALSE)
    /\ pc' = "parse"
    /\ UNCHANGED <<evalLocals, engineVars, result, caught, fault, response, dqVars>>

\* The board, the colour and the move text's resolution.
ParseMove ==
    /\ pc = "parse"
    /\ board' = Board(fen)
    /\ llm_color' = ColorOf(fen)
    /\ LET parsed == parse_san(Board(fen), llm_move_san) IN
        IF parsed.ok
        THEN /\ llm_move_uci' = parsed.uci
             /\ pc' = "launch"
             /\ UNCHANGED result
        ELSE /\ result' = IllegalMoveReport(llm_move_san, ColorOf(fen))
             /\ pc' = "returned"
             /\ UNCHANGED llm_move_uci
    /\ UNCHANGED <<event, evalArgs, engineVars, analysis_result, stockfish_top_moves,
                   stockfish_best_score, post_move_fen, llm_score, caught, fault, response, dqVars>>

\* SimpleEngine.popen_uci: the engine starts.
Launch ==
    /\ pc = "launch"
    /\ engine' = "running"
    /\ launches' = launches + 1
    /\ pc' = "first_query"
    /\ UNCHANGED <<event, evalArgs, evalLocals, calls, result, caught, fault, response, dqVars>>

\* SimpleEngine.popen_uci raises: no engine runs.
LaunchFails ==
    /\ pc = "launch"
    /\ \E exc \in LaunchErrors :
        /\ caught' = exc
        /\ result' = ExceptReport(exc, llm_color)
    /\ pc' = "returned"
    /\ UNCHANGED <<event, evalArgs, evalLocals, engineVars, fault, response, dqVars>>

\* The first query raises.
FirstQueryFails ==
    /\ pc = "first_query"
    /\ calls' = Append(calls, [fen |-> BoardFen(board), multipv |-> FirstQueryLines(multipv, top_n)])
    /\ \E exc \in QueryErrors :
        /\ caught' = exc
        /\ result' = ExceptReport(exc, llm_color)
    /\ engine' = ExitEngine("exception")
    /\ pc' = "returned"
    /\ UNCHANGED <<event, evalArgs, evalLocals, launches, fault, response, dqVars>>

\* The first query answers; the if/elif chain reads the answer.
FirstQuery ==
    /\ pc = "first_query"
    /\ calls' = Append(calls, [fen |-> BoardFen(board), multipv |-> FirstQueryLines(multipv, top_n)])
    /\ \E r \in AnalysisValues :
        /\ analysis_result' = r
        /\ LET x == Extract(r, multipv, top_n, llm_color) IN
            CASE x.kind = "ok" ->
                    /\ stockfish_top_moves' = x.moves
                    /\ stockfish_best_score' = x.best
                    /\ pc' = "push"
                    /\ UNCHANGED <<engine, result, caught>>
              [] x.kind = "return" ->
                    /\ result' = x.report
                    /\ engine' = ExitEngine("return")
                    /\ pc' = "returned"
                    /\ UNCHANGED <<stockfish_top_moves, stockfish_best_score, caught>>
              [] x.kind = "raise" ->
                    /\ caught' = x.exc
                    /\ result' = ExceptReport(x.exc, llm_color)
                    /\ engine' = ExitEngine("exception")
                    /\ pc' = "returned"
                    /\ stockfish_top_moves' = x.moves
                    /\ UNCHANGED stockfish_best_score
    /\ UNCHANGED <<event, evalArgs, board, llm_color, llm_move_uci, post_move_fen,
                   llm_score, launches, fault, response, dqVars>>

\* board.push(llm_move); post_move_fen = board.fen()
PushMove ==
    /\ pc = "push"
    /\ board' = Push(board, llm_move_uci)
    /\ post_move_fen' = BoardFen(Push(board, llm_move_uci))
    /\ pc' = "second_query"
    /\ UNCHANGED <<event, evalArgs, llm_color, llm_move_uci, analysis_result,
                   stockfish_top_moves, stockfish_best_score, llm_score,
                   engineVars, result, caught, fault, response, dqVars>>

\* The second query raises, or its answer cannot be read.
SecondQueryFails ==
    /\ pc = "second_query"
    /\ calls' = Append(calls, [fen |-> BoardFen(board), multipv |-> None])
    /\ \E exc \in QueryErrors \cup {NoneSubscript} :
        /\ caught' = exc
        /\ result' = ExceptReport(exc, llm_color)
    /\ engine' = ExitEngine("exception")
    /\ pc' = "returned"
    /\ UNCHANGED <<event, evalArgs, evalLocals, launches, fault, response, dqVars>>

\* The second query answers with one info; the move is taken back and the
\* with statement is left.
SecondQuery ==
    /\ pc = "second_query"
    /\ calls' = Append(calls, [fen |-> BoardFen(board), multipv |-> None])
    /\ \E s \in Scores : llm_score' = RelativeScore(s)
    /\ board' = Pop(board)
    /\ engine' = ExitEngine("normal")
    /\ pc' = "compute"
    /\ UNCHANGED <<event, evalArgs, llm_color, llm_move_uci, analysis_result,
                   stockfish_top_moves, stockfish_best_score, post_move_fen,
                   launches, result, caught, fault, response, dqVars>>

\* The loss, the label and the report.
Compute ==
    /\ pc = "compute"
    /\ stockfish_best_score # None /\ llm_score # None
    /\ result' = SuccessReport(stockfish_top_moves, stockfish_best_score[1], llm_move_uci,
                               post_move_fen, llm_score[1],
                               CentipawnLoss(llm_color, stockfish_best_score[1], llm_score[1]),
                               llm_color)
    /\ pc' = "returned"
    /\ UNCHANGED <<event, evalArgs, evalLocals, engineVars, caught, fault, response, dqVars>>

\* The subtraction of a score that is None raises TypeError, which nothing catches.
ComputeRaises ==
    /\ pc = "compute"
    /\ ~(stockfish_best_score # None /\ llm_score # None)
    /\ fault' = [type |-> "TypeError", msg |-> "unsupported operand type(s) for -"]
    /\ pc' = "raised"
    /\ UNCHANGED <<event, evalArgs, evalLocals, engineVars, caught, result, response, dqVars>>

\* main after evaluate_llm_move_logic returned.
MainReturn ==
    /\ pc = "returned"
    /\ response' = [statusCode |-> StatusOf(result), body |-> result]
    /\ pc' = "done"
    /\ UNCHANGED <<event, evalArgs, evalLocals, engineVars, result, caught, fault, dqVars>>

\* main has no handler: the exception leaves it too.
MainRaises ==
    /\ pc = "raised"
    /\ pc' = "crashed"
    /\ UNCHANGED <<event, evalArgs, evalLocals, engineVars, result, caught, fault, response, dqVars>>

Next ==
    \/ DescribeQuality
    \/ MainReject
    \/ MainCall
    \/ ParseMove
    \/ Launch
    \/ LaunchFails
    \/ FirstQueryFails
    \/ FirstQuery
    \/ PushMove
    \/ SecondQueryFails
    \/ SecondQuery
    \/ Compute
    \/ ComputeRaises
    \/ MainReturn
    \/ MainRaises

Spec == Init /\ [][Next]_vars

\* ------------------------------------------------------------------- claims

\* evaluate_llm_move_logic has been called and has returned a report.
Reported == pc \in {"returned", "done"} /\ result # Unset

\* evaluate_llm_move_logic has been left, by a return or by an exception.
Left == pc \in {"returned", "done", "raised", "crashed"}

\* The side to move of the position the request gives.
SideToMove == IF fen[2] = "w" THEN "white" ELSE "black"

Rank(q) ==
    CASE q = "Excellent" -> 0 [] q = "Good" -> 1 [] q = "Inaccuracy" -> 2
      [] q = "Mistake" -> 3 [] q = "Blunder" -> 4 [] OTHER -> -1

\* C1: describe_quality returns "Excellent" below 20, "Good" from 20 to 49,
\* "Inaccuracy" from 50 to 99, "Mistake" from 100 to 299 and "Blunder" from
\* 300 on, for negative losses too, and no larger loss gets a better label.
C1_QualitySteps ==
    pc = "classified" =>
        /\ (quality = "Excellent") <=> (loss < 20)
        /\ (quality = "Good") <=> (20 <= loss /\ loss < 50)
        /\ (quality = "Inaccuracy") <=> (50 <= loss /\ loss < 100)
        /\ (quality = "Mistake") <=> (100 <= loss /\ loss < 300)
        /\ (quality = "Blunder") <=> (loss >= 300)
        /\ \A l \in (-MaxLoss)..MaxLoss :
              l >= loss => Rank(describe_quality(l)) >= Rank(quality)

\* A loss on a boundary has been classified.
C1_Witness == pc = "classified" /\ loss = 20 /\ quality = "Good"

\* The move text is no legal move of the position.
NotLegal == ~(\E m \in MoveTable : m.fen = fen /\ m.san = llm_move_san)

\* C2: a move text that is no legal move of the position is reported with the
\* fixed illegal-move report, and no engine is launched or queried.
C2_IllegalMoveReport ==
    (pc \notin {"idle", "classified", "parse"} /\ ~Missing(event) /\ NotLegal) =>
        /\ pc \in {"returned", "done"}
        /\ result = [llm_move |-> llm_move_san, llm_eval |-> 10000,
                     centipawn_loss |-> 10000, move_quality |-> "Illegal",
                     error |-> "Illegal move format or invalid move.",
                     llm_color |-> SideToMove]
        /\ engine = "none" /\ launches = 0 /\ calls = <<>>

\* "Z9" has been reported for the position with black to move.
C2_Witness ==
    /\ pc = "returned" /\ llm_move_san = "Z9" /\ fen = BlackFen
    /\ "move_quality" \in DOMAIN result /\ launches = 0

\* The request lacks the field, or gives it empty.
FieldMissing(k, empty) == IF k \in DOMAIN event THEN event[k] = empty ELSE TRUE

\* C3: the status is 400 with the fixed body exactly when fen or llm_move_san
\* is missing, and then nothing was evaluated; otherwise it is 500 exactly
\* when the report has an error key and 200 when it has none, and the body is
\* the report.
C3_StatusCode ==
    pc = "done" =>
        /\ response.statusCode \in {200, 400, 500}
        /\ (response.statusCode = 400) <=>
              (FieldMissing("fen", <<>>) \/ FieldMissing("llm_move_san", ""))
        /\ (response.statusCode = 400) =>
              /\ response.body = [error |-> "Missing required parameters: 'fen' and 'llm_move_san' must be provided."]
              /\ result = Unset /\ board = Unset
              /\ launches = 0 /\ calls = <<>>
        /\ (response.statusCode # 400) =>
              /\ response.body = result
              /\ (response.statusCode = 500) <=> ("error" \in DOMAIN result)
              /\ (response.statusCode = 200) <=> ("error" \notin DOMAIN result)

\* The illegal-move report has been answered with status 500.
C3_Witness ==
    /\ pc = "done" /\ response.statusCode = 500
    /\ "move_quality" \in DOMAIN response.body

\* C4: once evaluate_llm_move_logic has returned or raised, the engine it
\* launched is no longer running, and a call launches at most one engine.
C4_EngineReleased ==
    /\ launches <= 1
    /\ Left => engine # "running"
    /\ (Left /\ launches = 1) => engine = "closed"

\* The engine terminated in the second query and evaluate has returned.
C4_Witness ==
    /\ pc = "returned" /\ launches = 1 /\ engine = "closed"
    /\ Len(calls) = 2 /\ caught = EngineTerminatedError

\* C5: for a legal move, whatever the engine does, evaluate_llm_move_logic
\* returns a report: no exception leaves it or main.
C5_NoUncaughtFault == pc \notin {"raised", "crashed"} /\ fault = Unset

\* C6: when the try statement caught an exception (at launch, in the first
\* query or in the second), the report has exactly the keys error and
\* llm_color, and llm_color is the side to move of the original position.
C6_FailureReport ==
    (Reported /\ caught # Unset) =>
        /\ DOMAIN result = {"error", "llm_color"}
        /\ result.llm_color = SideToMove

\* The engine terminated in the second query, after the first one gave two
\* moves and a best score.
C6_Witness ==
    /\ pc = "returned" /\ caught = EngineTerminatedError /\ Len(calls) = 2
    /\ Len(stockfish_top_moves) = 2 /\ stockfish_best_score = Some(50)
    /\ DOMAIN result = {"error", "llm_color"} /\ result.llm_color = "black"

\* C7: in a successful report, for a move that obtains no more than the best
\* score, centipawn_loss is the best score for the mover minus the score the
\* mover obtained, the second score being relative to the opponent: 0 when
\* the mover obtained the best score, positive when less.
C7_LossFromMoverView ==
    (Reported /\ "error" \notin DOMAIN result) =>
        LET best == result.stockfish_eval
            obtained == 0 - result.llm_eval
        IN  /\ (obtained <= best => result.centipawn_loss = best - obtained)
            /\ (obtained = best => result.centipawn_loss = 0)
            /\ (obtained < best => result.centipawn_loss > 0)

\* The line has a first move and a score.
Readable(info) ==
    /\ "pv" \in DOMAIN info /\ "score" \in DOMAIN info
    /\ Len(info.pv) > 0

\* The first query's result is empty or not of the expected structure.
EmptyOrUnexpected(r) ==
    \/ r.kind = "none"
    \/ r.kind = "list" /\ Len(r.items) = 0
    \/ r.kind = "list" /\ Len(r.items) > 0 /\ ~Readable(r.items[1])
    \/ r.kind = "dict" /\ ~Readable(r.info)

\* C8: when the first query returns an empty or structurally unexpected
\* result, the report is the unexpected-format report, the move is not
\* applied and no second query is made.
C8_UnexpectedFormat ==
    (analysis_result # Unset /\ EmptyOrUnexpected(analysis_result)) =>
        /\ pc \in {"returned", "done"}
        /\ result = [error |-> "Stockfish analysis returned unexpected result format.",
                     llm_color |-> SideToMove]
        /\ board.move_stack = <<>> /\ post_move_fen = <<>>
        /\ Len(calls) = 1

\* The number of lines a call asks for.
Lines(req) == IF req = None THEN 1 ELSE req[1]

\* C9: the first query is made on the original position and asks for top_n
\* lines only when multipv is true and top_n > 1, and for a single line
\* otherwise; a successful report's stockfish_moves are the first moves of the
\* returned lines in rank order, one move when multipv is false or top_n <= 1.
C9_FirstQueryLines ==
    /\ Len(calls) >= 1 =>
        /\ calls[1].fen = fen
        /\ Lines(calls[1].multipv) = (IF multipv /\ top_n > 1 THEN top_n ELSE 1)
    /\ (Reported /\ "error" \notin DOMAIN result) =>
        IF multipv /\ top_n > 1 /\ analysis_result.kind = "list"
        THEN /\ Len(result.stockfish_moves) = Len(analysis_result.items)
             /\ \A i \in 1..Len(analysis_result.items) :
                    result.stockfish_moves[i] = analysis_result.items[i].pv[1]
        ELSE Len(result.stockfish_moves) = 1

\* C10: whenever evaluate_llm_move_logic has returned or raised, the working
\* position does not retain the applied move; it holds the move only between
\* the two queries.
C10_BoardRestored ==
    /\ (board # Unset /\ board.move_stack # <<>>) => pc = "second_query"
    /\ (board # Unset /\ Left) => BoardFen(board) = fen
====
